---------------------------- MODULE Spec2Model ----------------------------
(***************************************************************************)
(* Model of libertem_blobfinder.udf.correlation: the three correlation      *)
(* UDFs (FastCorrelationUDF, FullFrameCorrelationUDF, SparseCorrelationUDF) *)
(* with their base class CorrelationUDF, and the wrappers                   *)
(* run_fastcorrelation and run_blobfinder.                                  *)
(*                                                                          *)
(* Conventions.  Pixel coordinates are pairs <<y, x>>.  Coordinates that    *)
(* the caller may give as fractions (peaks, zero shift) are fixed-point     *)
(* numbers: the integer n stands for n / Denom.  Python arrays are          *)
(* sequences (index k of Python is index k + 1 here); a frame is a function *)
(* from pixel coordinates (zero-based, as in Python) to values.             *)
(***************************************************************************)
EXTENDS Integers, Sequences, FiniteSets, TLC

\* ---------------------------------------------------------------- bounds
Denom == 4          \* fixed-point denominator of fractional coordinates
NumFrames == 2      \* frames (navigation positions) of the dataset
SigH == 2           \* rows of one frame
SigW == 3           \* columns of one frame
MaxPix == 2         \* largest pixel value
MaxSteps == 1       \* largest `steps` of the sparse strategy
MaxCrop == 1        \* largest crop size of a match pattern

\* --------------------------------------------------------- numeric helpers
Abs(n) == IF n < 0 THEN -n ELSE n

RECURSIVE SumSeq(_)
SumSeq(s) == IF s = <<>> THEN 0 ELSE Head(s) + SumSeq(Tail(s))

RECURSIVE SumOver(_, _)
\* sum of f[e] over the elements e of the finite set S
SumOver(S, f) ==
    IF S = {} THEN 0
    ELSE LET e == CHOOSE e \in S : TRUE IN f[e] + SumOver(S \ {e}, f)

RECURSIVE Concat(_)
\* concatenation of a sequence of sequences (numpy flatten of one level)
Concat(ss) == IF ss = <<>> THEN <<>> ELSE Head(ss) \o Concat(Tail(ss))

\* astype(int) of a fixed-point number: truncation towards zero
AsTypeInt(n) == IF n >= 0 THEN n \div Denom ELSE -((-n) \div Denom)

\* np.round of a fixed-point number, as an integer: nearest, ties to even
NpRound(n) ==
    LET f == n \div Denom
        r == n % Denom
    IN  IF 2 * r < Denom THEN f
        ELSE IF 2 * r > Denom THEN f + 1
        ELSE IF f % 2 = 0 THEN f ELSE f + 1

\* TLC evaluates a function constructor anew at every application; comparing
\* the function makes it build the value once.  Strict(f) is f.
Strict(f) == IF f = f THEN f ELSE f

VecAdd(a, b) == <<a[1] + b[1], a[2] + b[2]>>
VecSub(a, b) == <<a[1] - b[1], a[2] - b[2]>>
VecScale(k, a) == <<k * a[1], k * a[2]>>


\* ------------------------------------------------------- Python values
\* A Python value that is None, absent, a bool or an int: a record with a
\* kind k and an integer v.  `upsample is True` holds of PyTrue alone.
Absent == [k |-> "absent", v |-> 0]
PyFalse == [k |-> "bool", v |-> 0]
PyTrue == [k |-> "bool", v |-> 1]
PyInt(n) == [k |-> "int", v |-> n]

\* A zero shift: None, absent, one vector, or one vector per frame (AUX
\* data).  v is a sequence of fixed-point vectors.
ZsNone == [k |-> "None", v |-> <<>>]
ZsAbsent == [k |-> "absent", v |-> <<>>]
ZsVec(a) == [k |-> "vec", v |-> <<a>>]
ZsAux(s) == [k |-> "aux", v |-> s]

\* the exceptions the module raises
ErrZeroShift == "ValueError: Parameter zero_shift not supported for SparseCorrelationUDF"
ErrDevice == "ValueError: Unknown device class"
ErrBackend == "RuntimeError: Unsupported array backend"

\* ------------------------------------------------------------ the classes
Classes == {"FastCorrelationUDF", "FullFrameCorrelationUDF", "SparseCorrelationUDF"}

Entries == Classes \cup {"run_fastcorrelation", "run_blobfinder"}

\* the class of the UDF an entry point constructs
ClassOf(entry) ==
    IF entry \in {"run_fastcorrelation", "run_blobfinder"}
    THEN "FastCorrelationUDF" ELSE entry

\* np.round(peaks).astype(int): fixed-point peaks to integer pixels
RoundPeaks(peaks) ==
    [p \in DOMAIN peaks |-> <<NpRound(peaks[p][1]), NpRound(peaks[p][2])>>]

\* an integer array given where the callee takes any numbers
AsFixed(peaks) ==
    [p \in DOMAIN peaks |-> <<Denom * peaks[p][1], Denom * peaks[p][2]>>]

\* CorrelationUDF.__init__(peaks, zero_shift=None, **kwargs): the params of
\* the UDF.  kwargs is the record of the other parameters.
CorrelationUDF_init(peaks, zero_shift, kwargs) ==
    [kwargs EXCEPT !.peaks = RoundPeaks(peaks),
                   !.zero_shift = IF zero_shift.k = "absent" THEN ZsNone
                                  ELSE zero_shift]

NoKwargs ==
    [peaks |-> <<>>, zero_shift |-> ZsNone, match_pattern |-> [crop_size |-> 0],
     upsample |-> Absent, steps |-> Absent]

\* FastCorrelationUDF.__init__ and FullFrameCorrelationUDF.__init__: the
\* same code; upsample travels in **kwargs.
FastCorrelationUDF_init(peaks, match_pattern, zero_shift, upsample) ==
    [error |-> "none",
     params |-> CorrelationUDF_init(peaks, zero_shift,
                    [NoKwargs EXCEPT !.match_pattern = match_pattern,
                                     !.upsample = upsample])]

FullFrameCorrelationUDF_init(peaks, match_pattern, zero_shift, upsample) ==
    [error |-> "none",
     params |-> CorrelationUDF_init(peaks, zero_shift,
                    [NoKwargs EXCEPT !.match_pattern = match_pattern,
                                     !.upsample = upsample])]

\* a constructor without the check of line 302
SparseCorrelationUDF_init_unchecked(peaks, match_pattern, steps, zero_shift) ==
    [error |-> "none",
     params |-> CorrelationUDF_init(peaks, zero_shift,
                    [NoKwargs EXCEPT !.match_pattern = match_pattern,
                                     !.steps = PyInt(steps)])]

\* SparseCorrelationUDF.__init__: zero_shift can only come in **kwargs; the
\* base class stores it and the constructor then refuses anything but None.
SparseCorrelationUDF_init(peaks, match_pattern, steps, zero_shift) ==
    LET params == CorrelationUDF_init(peaks, zero_shift,
                      [NoKwargs EXCEPT !.match_pattern = match_pattern,
                                       !.steps = PyInt(steps)])
    IN  IF params.zero_shift.k # "None"
        THEN [error |-> ErrZeroShift, params |-> params]
        ELSE [error |-> "none", params |-> params]

\* run_fastcorrelation: peaks.astype(int), then FastCorrelationUDF with the
\* upsample it was given (False when omitted).
run_fastcorrelation(peaks, match_pattern, zero_shift, upsample) ==
    LET ipeaks == [p \in DOMAIN peaks |->
                      <<AsTypeInt(peaks[p][1]), AsTypeInt(peaks[p][2])>>]
    IN  FastCorrelationUDF_init(AsFixed(ipeaks), match_pattern,
            IF zero_shift.k = "absent" THEN ZsNone ELSE zero_shift,
            IF upsample.k = "absent" THEN PyFalse ELSE upsample)

BlobfinderDefaultUpsample == 20

\* run_blobfinder, lines 475-476: upsample=True becomes 20
blobfinder_upsample(upsample) ==
    IF upsample = PyTrue THEN PyInt(BlobfinderDefaultUpsample) ELSE upsample

\* run_blobfinder: peaks are those get_peaks found in the sum frame (whole
\* pixels); no zero shift is passed on.
run_blobfinder(found_peaks, match_pattern, upsample) ==
    run_fastcorrelation(found_peaks, match_pattern, ZsAbsent,
        blobfinder_upsample(IF upsample.k = "absent" THEN PyFalse ELSE upsample))

\* the constructor call `c` (a record of the caller's arguments) evaluated
Construct(c) ==
    CASE c.entry = "FastCorrelationUDF" ->
            FastCorrelationUDF_init(c.peaks, c.match_pattern, c.zero_shift, c.upsample)
      [] c.entry = "FullFrameCorrelationUDF" ->
            FullFrameCorrelationUDF_init(c.peaks, c.match_pattern, c.zero_shift, c.upsample)
      [] c.entry = "SparseCorrelationUDF" ->
            SparseCorrelationUDF_init(c.peaks, c.match_pattern, c.steps, c.zero_shift)
      [] c.entry = "run_fastcorrelation" ->
            run_fastcorrelation(c.peaks, c.match_pattern, c.zero_shift, c.upsample)
      [] c.entry = "run_blobfinder" ->
            run_blobfinder(c.peaks, c.match_pattern, c.upsample)

\* --------------------------------------------------------- result buffers
\* self.buffer(kind, extra_shape, dtype): `use` is not given, so the buffer
\* is an ordinary result buffer
buffer(kind, extra_shape, dtype) ==
    [kind |-> kind, extra_shape |-> extra_shape, dtype |-> dtype, use |-> "None"]

\* CorrelationUDF.get_result_buffers
CorrelationUDF_get_result_buffers(params) ==
    LET num_disks == Len(params.peaks)
    IN  [n \in {"centers", "refineds", "peak_values", "peak_elevations"} |->
            CASE n = "centers" -> buffer("nav", <<num_disks, 2>>, "int32")
              [] n = "refineds" -> buffer("nav", <<num_disks, 2>>, "float32")
              [] n = "peak_values" -> buffer("nav", <<num_disks>>, "float32")
              [] n = "peak_elevations" -> buffer("nav", <<num_disks>>, "float32")]

\* dict.update
Update(a, b) ==
    [n \in DOMAIN a \cup DOMAIN b |-> IF n \in DOMAIN b THEN b[n] ELSE a[n]]

\* corr declared as a private buffer
SparseCorrelationUDF_get_result_buffers_private(params) ==
    LET super_buffers == CorrelationUDF_get_result_buffers(params)
        num_disks == Len(params.peaks)
        steps == params.steps.v * 2 + 1
        my_buffers == [n \in {"corr"} |->
                          [buffer("nav", <<num_disks * steps * steps>>, "float32")
                              EXCEPT !.use = "private"]]
    IN  Update(super_buffers, my_buffers)

\* SparseCorrelationUDF.get_result_buffers
SparseCorrelationUDF_get_result_buffers(params) ==
    LET super_buffers == CorrelationUDF_get_result_buffers(params)
        num_disks == Len(params.peaks)
        steps == params.steps.v * 2 + 1
        my_buffers == [n \in {"corr"} |->
                          buffer("nav", <<num_disks * steps * steps>>, "float32")]
    IN  Update(super_buffers, my_buffers)

get_result_buffers(cls, params) ==
    IF cls = "SparseCorrelationUDF"
    THEN SparseCorrelationUDF_get_result_buffers(params)
    ELSE CorrelationUDF_get_result_buffers(params)

\* the buffers run_udf hands back to the caller: all but the private ones
ResultNames(bufs) == {n \in DOMAIN bufs : bufs[n].use # "private"}

\* a zero-initialised array of one frame's extra_shape
Zeros(extra_shape) ==
    IF Len(extra_shape) = 1
    THEN [i \in 1..extra_shape[1] |-> 0]
    ELSE [i \in 1..extra_shape[1] |-> [j \in 1..extra_shape[2] |-> 0]]

\* the framework's allocation of the declared buffers, one row per frame
Allocate(bufs) ==
    [n \in DOMAIN bufs |-> [f \in 1..NumFrames |-> Zeros(bufs[n].extra_shape)]]


\* ----------------------------------------------------------- the dataset
\* pixel coordinates of one frame, zero-based as in Python
Rows == 0..(SigH - 1)
Cols == 0..(SigW - 1)
Pixels == Rows \X Cols
FrameIds == 1..NumFrames

InFrame(q) == q[1] \in Rows /\ q[2] \in Cols

\* ------------------------------------------------------ the match pattern
\* MatchPattern.get_crop_size
get_crop_size(match_pattern) == match_pattern.crop_size

\* MatchPattern.get_mask(sig_shape): the pattern drawn at the centre of an
\* array of the requested shape, a function of the zero-based <<ty, tx>>.
\* The pattern is a pyramid of half-width crop_size: highest at its centre.
get_mask(match_pattern, sig_shape) ==
    LET c == match_pattern.crop_size
        cy == sig_shape[1] \div 2
        cx == sig_shape[2] \div 2
    IN  [t \in (0..(sig_shape[1] - 1)) \X (0..(sig_shape[2] - 1)) |->
            IF Abs(t[1] - cy) <= c /\ Abs(t[2] - cx) <= c
            THEN 1 + 2 * c - Abs(t[1] - cy) - Abs(t[2] - cx)
            ELSE 0]

\* MatchPattern.get_template(sig_shape): the same pattern, prepared for the
\* frequency-domain correlation; the model correlates in real space.
get_template(match_pattern, sig_shape) == get_mask(match_pattern, sig_shape)

\* ------------------------------------------------------------- backends
BACKEND_NUMPY == "numpy"
BACKEND_CUPY == "cupy"
BACKEND_SPARSE_COO == "sparse.COO"
BACKEND_SPARSE_GCXS == "sparse.GCXS"

\* the tags the framework knows; the last three are declared by no strategy
BackendTags ==
    {BACKEND_NUMPY, BACKEND_CUPY, BACKEND_SPARSE_COO, BACKEND_SPARSE_GCXS,
     "scipy.sparse.csr_matrix", "cupyx.scipy.sparse.csr_matrix", "cuda"}

\* sparseconverter.CPU_BACKENDS and sparseconverter.CUDA_BACKENDS
CPU_BACKENDS ==
    {BACKEND_NUMPY, BACKEND_SPARSE_COO, BACKEND_SPARSE_GCXS, "scipy.sparse.csr_matrix"}
CUDA_BACKENDS == {BACKEND_CUPY, "cupyx.scipy.sparse.csr_matrix"}

\* FastCorrelationUDF.get_backends, and SparseCorrelationUDF.get_backends
FastCorrelationUDF_get_backends ==
    {BACKEND_NUMPY, BACKEND_CUPY, BACKEND_SPARSE_COO, BACKEND_SPARSE_GCXS}

\* FullFrameCorrelationUDF.get_backends: no sparse backends
FullFrameCorrelationUDF_get_backends == {BACKEND_NUMPY, BACKEND_CUPY}

SparseCorrelationUDF_get_backends ==
    {BACKEND_NUMPY, BACKEND_CUPY, BACKEND_SPARSE_COO, BACKEND_SPARSE_GCXS}

get_backends(cls) ==
    CASE cls = "FastCorrelationUDF" -> FastCorrelationUDF_get_backends
      [] cls = "FullFrameCorrelationUDF" -> FullFrameCorrelationUDF_get_backends
      [] cls = "SparseCorrelationUDF" -> SparseCorrelationUDF_get_backends

\* ------------------------------------------------------------- task data
\* One record shape for the three classes; a field a class does not set is
\* empty.
NoTaskData ==
    [template |-> <<>>, crop_bufs |-> <<>>, frame_buf |-> <<>>,
     crop_function |-> "", mask_container |-> <<>>, crop_size |-> 0]

\* the branch without its final raise
crop_function_for_any(array_backend) ==
    IF array_backend \in {BACKEND_SPARSE_COO, BACKEND_SPARSE_GCXS, BACKEND_CUPY}
    THEN "crop_disks_from_frame_slicing"
    ELSE "crop_disks_from_frame"

\* the branch of lines 137-143 and 229-235
crop_function_for(array_backend) ==
    IF array_backend \in {BACKEND_SPARSE_COO, BACKEND_SPARSE_GCXS, BACKEND_CUPY}
    THEN "crop_disks_from_frame_slicing"
    ELSE IF array_backend \in {BACKEND_NUMPY}
    THEN "crop_disks_from_frame"
    ELSE ErrBackend

\* ltbc.allocate_crop_bufs: one zeroed 2*crop_size square per peak
allocate_crop_bufs(crop_size, n_peaks) ==
    [p \in 1..n_peaks |->
        [w \in (0..(2 * crop_size - 1)) \X (0..(2 * crop_size - 1)) |-> 0]]

\* FastCorrelationUDF.get_task_data
FastCorrelationUDF_get_task_data(params, array_backend) ==
    LET n_peaks == Len(params.peaks)
        mask == params.match_pattern
        crop_size == get_crop_size(mask)
        template == get_template(mask, <<2 * crop_size, 2 * crop_size>>)
        crop_bufs == allocate_crop_bufs(crop_size, n_peaks)
        crop_function == crop_function_for(array_backend)
    IN  IF crop_function = ErrBackend
        THEN [error |-> ErrBackend, task_data |-> NoTaskData]
        ELSE [error |-> "none",
              task_data |-> [NoTaskData EXCEPT !.crop_bufs = crop_bufs,
                                               !.template = template,
                                               !.crop_function = crop_function]]

\* FullFrameCorrelationUDF.get_task_data (buf_count, a batching hint, is
\* left out)
FullFrameCorrelationUDF_get_task_data(params, array_backend) ==
    LET mask == params.match_pattern
        template == get_template(mask, <<SigH, SigW>>)
        frame_buf == [q \in Pixels |-> 0]
        crop_function == crop_function_for(array_backend)
    IN  IF crop_function = ErrBackend
        THEN [error |-> ErrBackend, task_data |-> NoTaskData]
        ELSE [error |-> "none",
              task_data |-> [NoTaskData EXCEPT !.template = template,
                                               !.frame_buf = frame_buf,
                                               !.crop_function = crop_function]]

\* np.mgrid[lo:hi, lo:hi]: the row offsets Y and the column offsets X
Mgrid(lo, hi) ==
    LET n == hi - lo
    IN  [Y |-> [i \in 1..n |-> [j \in 1..n |-> lo + (i - 1)]],
         X |-> [i \in 1..n |-> [j \in 1..n |-> lo + (j - 1)]]]

\* the grid flattened in column-major order
FlatOffsets_column_major(peaks, axis, peak_offset, crop_size) ==
    Concat([p \in DOMAIN peaks |->
        Concat([j \in DOMAIN peak_offset |->
            [i \in DOMAIN peak_offset |->
                peaks[p][axis] + peak_offset[i][j] - crop_size]])])

\* peaks[:, axis, newaxis, newaxis] + peak_offset - crop_size, flattened
\* (C order: peak, then row of the grid, then column)
FlatOffsets(peaks, axis, peak_offset, crop_size) ==
    Concat([p \in DOMAIN peaks |->
        Concat([i \in DOMAIN peak_offset |->
            [j \in DOMAIN peak_offset[i] |->
                peaks[p][axis] + peak_offset[i][j] - crop_size]])])

\* SparseCorrelationUDF.get_task_data
SparseCorrelationUDF_get_task_data(params, array_backend) ==
    LET match_pattern == params.match_pattern
        crop_size == get_crop_size(match_pattern)
        size == <<2 * crop_size + 1, 2 * crop_size + 1>>
        template == get_mask(match_pattern, size)
        steps == params.steps.v
        grid == Mgrid(-steps, steps + 1)
        offsetY == FlatOffsets(params.peaks, 1, grid.Y, crop_size)
        offsetX == FlatOffsets(params.peaks, 2, grid.X, crop_size)
        backend == IF array_backend \in CPU_BACKENDS THEN "numpy"
                   ELSE IF array_backend \in CUDA_BACKENDS THEN "cupy"
                   ELSE ErrDevice
        use_sparse ==
            IF array_backend = BACKEND_SPARSE_COO THEN "sparse.pydata"
            ELSE IF array_backend = BACKEND_SPARSE_GCXS THEN "sparse.pydata.GCXS"
            ELSE IF array_backend \in {BACKEND_CUPY, BACKEND_NUMPY}
            THEN "scipy.sparse.csc"
            ELSE ErrBackend
        container == [mask_index |-> 1..Len(offsetY),
                      offsetX |-> offsetX, offsetY |-> offsetY,
                      template |-> template, size |-> size,
                      use_sparse |-> use_sparse, backend |-> backend]
    IN  IF backend = ErrDevice
        THEN [error |-> ErrDevice, task_data |-> NoTaskData]
        ELSE IF use_sparse = ErrBackend
        THEN [error |-> ErrBackend, task_data |-> NoTaskData]
        ELSE [error |-> "none",
              task_data |-> [NoTaskData EXCEPT !.mask_container = container,
                                               !.crop_size = crop_size]]

get_task_data(cls, params, array_backend) ==
    CASE cls = "FastCorrelationUDF" ->
            FastCorrelationUDF_get_task_data(params, array_backend)
      [] cls = "FullFrameCorrelationUDF" ->
            FullFrameCorrelationUDF_get_task_data(params, array_backend)
      [] cls = "SparseCorrelationUDF" ->
            SparseCorrelationUDF_get_task_data(params, array_backend)


\* ------------------------------------------------- the numeric engine
\* (libertem_blobfinder.base.correlation and .masks)

RECURSIVE FloorLog2(_)
FloorLog2(n) == IF n < 2 THEN 0 ELSE 1 + FloorLog2(n \div 2)

\* the logarithmic intensity scaling of one value: about 2 * log2(x + 1)
LogScaleValue(x) ==
    LET e == FloorLog2(x + 1)
    IN  2 * e + (IF 2 * (x + 1) >= 3 * (2 ^ e) THEN 1 ELSE 0)

\* ltbc.log_scale(data, out=None) of a two-dimensional array
log_scale(data) ==
    [i \in DOMAIN data |-> [j \in DOMAIN data[i] |-> LogScaleValue(data[i][j])]]

\* array.T of a two-dimensional array with at least one row
Transpose(a) ==
    [j \in DOMAIN a[1] |-> [i \in DOMAIN a |-> a[i][j]]]

\* the places of the largest entries of a patch (a sequence of rows)
MaxOf(patch) ==
    CHOOSE m \in {patch[i][j] : i \in DOMAIN patch, j \in DOMAIN patch[1]} :
        \A i \in DOMAIN patch : \A j \in DOMAIN patch[i] : patch[i][j] <= m

MinOf(patch) ==
    CHOOSE m \in {patch[i][j] : i \in DOMAIN patch, j \in DOMAIN patch[1]} :
        \A i \in DOMAIN patch : \A j \in DOMAIN patch[i] : patch[i][j] >= m

\* np.argmax, unravelled: the first largest entry in C order, as <<i, j>>
ArgMax(patch) ==
    LET m == MaxOf(patch)
        w == Len(patch[1])
        hits == {<<i, j>> \in (DOMAIN patch) \X (DOMAIN patch[1]) : patch[i][j] = m}
    IN  CHOOSE h \in hits :
            \A g \in hits : (h[1] - 1) * w + h[2] <= (g[1] - 1) * w + g[2]

EvaluatorDefaultUpsample == 20

\* the upsampling factor the refinement step works with
refine_upsample(upsample) ==
    IF upsample = PyTrue THEN PyInt(EvaluatorDefaultUpsample) ELSE upsample

\* the evaluation of one correlation patch around `peak`: integer centre,
\* refined centre (fixed-point), height and elevation
evaluate_correlation(patch, peak, crop_size, upsample) ==
    LET at == ArgMax(patch)
        center == <<peak[1] + (at[1] - 1) - crop_size,
                    peak[2] + (at[2] - 1) - crop_size>>
    IN  [center |-> center,
         refined |-> VecScale(Denom, center),
         height |-> MaxOf(patch),
         elevation |-> MaxOf(patch) - MinOf(patch)]

\* ltbc.evaluate_correlations: every peak's patch, written to slot p of the
\* four output rows
evaluate_correlations(corrs, peaks, crop_size, upsample) ==
    LET ev == Strict([p \in DOMAIN peaks |->
                  evaluate_correlation(Strict(corrs[p]), peaks[p], crop_size, upsample)])
    IN  [centers |-> [p \in DOMAIN peaks |-> ev[p].center],
         refineds |-> [p \in DOMAIN peaks |-> ev[p].refined],
         peak_values |-> [p \in DOMAIN peaks |-> ev[p].height],
         peak_elevations |-> [p \in DOMAIN peaks |-> ev[p].elevation],
         upsample |-> refine_upsample(upsample)]

\* crop_disks_from_frame / crop_disks_from_frame_slicing: the square of side
\* 2 * crop_size around each peak, zero outside the frame
crop_disks(frame, peaks, crop_size) ==
    [p \in DOMAIN peaks |->
        [w \in (0..(2 * crop_size - 1)) \X (0..(2 * crop_size - 1)) |->
            LET q == <<peaks[p][1] - crop_size + w[1], peaks[p][2] - crop_size + w[2]>>
            IN  IF InFrame(q) THEN frame[q] ELSE 0]]

\* circular cross-correlation of `buf` with `template`, both functions on
\* (0..h-1) \X (0..w-1), at the shift d
CorrAt(buf, template, h, w, d) ==
    SumOver(DOMAIN template,
        [t \in DOMAIN template |->
            template[t] * buf[<<(t[1] + d[1]) % h, (t[2] + d[2]) % w>>]])

\* ltbc.process_frame_fast: crop, scale, correlate each crop with the
\* template, evaluate.  Returns the four output rows and the crop buffers.
process_frame_fast(template, crop_size, frame, peaks, upsample) ==
    LET n == 2 * crop_size
        crops == crop_disks(frame, peaks, crop_size)
        scaled == Strict([p \in DOMAIN peaks |->
                      [w \in DOMAIN crops[p] |-> LogScaleValue(crops[p][w])]])
        corrs == [p \in DOMAIN peaks |->
                     [i \in 1..n |-> [j \in 1..n |->
                         CorrAt(scaled[p], template, n, n,
                                <<i - 1 - crop_size, j - 1 - crop_size>>)]]]
    IN  [out |-> evaluate_correlations(corrs, peaks, crop_size, upsample),
         crop_bufs |-> scaled]

\* ltbc.process_frame_full: scale the frame into frame_buf, correlate it
\* once with the template, read each peak's window off the map, evaluate.
process_frame_full(template, crop_size, frame, peaks, upsample) ==
    LET n == 2 * crop_size
        frame_buf == Strict([q \in Pixels |-> LogScaleValue(frame[q])])
        corrmap == Strict([q \in Pixels |->
                       CorrAt(frame_buf, template, SigH, SigW,
                              <<q[1] - SigH \div 2, q[2] - SigW \div 2>>)])
        corrs == [p \in DOMAIN peaks |->
                     [i \in 1..n |-> [j \in 1..n |->
                         LET q == <<peaks[p][1] - crop_size + (i - 1),
                                    peaks[p][2] - crop_size + (j - 1)>>
                         IN  IF InFrame(q) THEN corrmap[q] ELSE 0]]]
    IN  [out |-> evaluate_correlations(corrs, peaks, crop_size, upsample),
         frame_buf |-> frame_buf]

\* The engine calls in two steps, for workers that run side by side: the
\* scratch array is filled from the frame, then the correlation reads it.
\* fast_correlate(fast_fill(...)) is process_frame_fast, and
\* full_correlate(full_fill(...)) is process_frame_full.
fast_fill(frame, peaks, crop_size) ==
    LET crops == crop_disks(frame, peaks, crop_size)
    IN  [p \in DOMAIN peaks |->
            [w \in DOMAIN crops[p] |-> LogScaleValue(crops[p][w])]]

fast_correlate(crop_bufs, template, crop_size, peaks, upsample) ==
    LET n == 2 * crop_size
        bufs == Strict(crop_bufs)
        corrs == [p \in DOMAIN peaks |->
                     [i \in 1..n |-> [j \in 1..n |->
                         CorrAt(bufs[p], template, n, n,
                                <<i - 1 - crop_size, j - 1 - crop_size>>)]]]
    IN  evaluate_correlations(corrs, peaks, crop_size, upsample)

full_fill(frame) == [q \in Pixels |-> LogScaleValue(frame[q])]

full_correlate(frame_buf, template, crop_size, peaks, upsample) ==
    LET n == 2 * crop_size
        buf == Strict(frame_buf)
        corrmap == Strict([q \in Pixels |->
                       CorrAt(buf, template, SigH, SigW,
                              <<q[1] - SigH \div 2, q[2] - SigW \div 2>>)])
        corrs == [p \in DOMAIN peaks |->
                     [i \in 1..n |-> [j \in 1..n |->
                         LET q == <<peaks[p][1] - crop_size + (i - 1),
                                    peaks[p][2] - crop_size + (j - 1)>>
                         IN  IF InFrame(q) THEN corrmap[q] ELSE 0]]]
    IN  evaluate_correlations(corrs, peaks, crop_size, upsample)

\* masks.sparse_template_multi_stack: pixel q of mask number k, the template
\* drawn with its top-left corner at <<offsetY[k], offsetX[k]>> and cut at
\* the frame's edge
MaskPixel(c, k, q) ==
    LET t == <<q[1] - c.offsetY[k], q[2] - c.offsetX[k]>>
    IN  IF t \in DOMAIN c.template THEN c.template[t] ELSE 0

\* MaskContainer.get(key=tile_slice, transpose=False): every mask cut to
\* the slice's signal rectangle and flattened in C order
mask_container_get(c, tile_slice) ==
    [k \in 1..Len(c.offsetY) |->
        Concat([i \in 1..tile_slice.shape[1] |->
            [j \in 1..tile_slice.shape[2] |->
                MaskPixel(c, k, <<tile_slice.origin[1] + (i - 1),
                                  tile_slice.origin[2] + (j - 1)>>)]])]

\* sl.dot(tile_t): masks (rows) times flattened pixels (columns: frames)
Dot(sl, tile_t) ==
    [k \in DOMAIN sl |->
        [f \in DOMAIN tile_t[1] |->
            SumSeq([i \in DOMAIN sl[k] |-> sl[k][i] * tile_t[i][f]])]]


\* ------------------------------------------------------- the UDF methods
PyNone == [k |-> "None", v |-> 0]

\* params.zero_shift as process_frame sees it: the framework replaces AUX
\* data by its view of the current frame f ("masked with view")
ParamsView(zero_shift, f) ==
    IF zero_shift.k = "aux" THEN ZsVec(zero_shift.v[f]) ELSE zero_shift

\* CorrelationUDF.get_zero_shift(index=None), a fixed-point vector
get_zero_shift(zero_shift, index) ==
    IF zero_shift.k = "None" THEN <<0, 0>>
    ELSE IF index.k = "None" THEN zero_shift.v[1]
    ELSE zero_shift.v[index.v + 1]

\* the shift truncated instead of rounded: np.round left out
ShiftedPeaks_truncating(peaks, zero_shift) ==
    LET zs == get_zero_shift(zero_shift, PyNone)
        shift == <<AsTypeInt(zs[1]), AsTypeInt(zs[2])>>
    IN  [p \in DOMAIN peaks |-> VecAdd(peaks[p], shift)]

\* the shift subtracted
ShiftedPeaks_subtracting(peaks, zero_shift) ==
    LET zs == get_zero_shift(zero_shift, PyNone)
        shift == <<NpRound(zs[1]), NpRound(zs[2])>>
    IN  [p \in DOMAIN peaks |-> VecSub(peaks[p], shift)]

\* self.get_peaks() + np.round(self.get_zero_shift()).astype(int)
ShiftedPeaks(peaks, zero_shift) ==
    LET zs == get_zero_shift(zero_shift, PyNone)
        shift == <<NpRound(zs[1]), NpRound(zs[2])>>
    IN  [p \in DOMAIN peaks |-> VecAdd(peaks[p], shift)]

\* upsample not passed on to the engine
params_get_upsample_dropped(params) == PyFalse

\* self.params.get('upsample', False)
params_get_upsample(params) ==
    IF params.upsample.k = "absent" THEN PyFalse ELSE params.upsample

\* FastCorrelationUDF.process_frame for frame number f: what is handed to
\* the engine (call), the frame's four output rows (out) and the task data
\* with its scratch buffers as the call leaves them
FastCorrelationUDF_process_frame(params, task_data, frame, f) ==
    LET match_pattern == params.match_pattern
        peaks == ShiftedPeaks(params.peaks, ParamsView(params.zero_shift, f))
        upsample == params_get_upsample(params)
        r == process_frame_fast(task_data.template, get_crop_size(match_pattern),
                                frame, peaks, upsample)
    IN  [call |-> [frame |-> f, peaks |-> peaks, upsample |-> upsample,
                   refine |-> r.out.upsample,
                   crop_function |-> task_data.crop_function],
         out |-> r.out,
         task_data |-> [task_data EXCEPT !.crop_bufs = r.crop_bufs]]

\* FullFrameCorrelationUDF.process_frame
FullFrameCorrelationUDF_process_frame(params, task_data, frame, f) ==
    LET match_pattern == params.match_pattern
        peaks == ShiftedPeaks(params.peaks, ParamsView(params.zero_shift, f))
        upsample == params_get_upsample(params)
        r == process_frame_full(task_data.template, get_crop_size(match_pattern),
                                frame, peaks, upsample)
    IN  [call |-> [frame |-> f, peaks |-> peaks, upsample |-> upsample,
                   refine |-> r.out.upsample,
                   crop_function |-> task_data.crop_function],
         out |-> r.out,
         task_data |-> [task_data EXCEPT !.frame_buf = r.frame_buf]]

\* tile.reshape((tile.shape[0], -1)): each frame's rectangle flattened
ReshapeTile(tile) == [i \in DOMAIN tile |-> Concat(tile[i])]

\* assignment instead of +=
AddInto_overwriting(corr, delta) == delta

\* the sum of two arrays of the same two-dimensional shape
AddInto(corr, delta) ==
    [i \in DOMAIN corr |-> [k \in DOMAIN corr[i] |-> corr[i][k] + delta[i][k]]]

\* the responses added to the frames of the tile in reversed order
SparseCorrelationUDF_process_tile_frames_reversed(task_data, corr, tile, tile_slice) ==
    LET c == task_data.mask_container
        tile_t == Strict(Transpose(Strict(log_scale(Strict(ReshapeTile(tile))))))
        sl == Strict(mask_container_get(c, tile_slice))
        resp == Strict(Transpose(Strict(Dot(sl, tile_t))))
    IN  AddInto(corr, [i \in DOMAIN resp |-> resp[Len(resp) + 1 - i]])

\* SparseCorrelationUDF.process_tile: corr is the view of results.corr for
\* the tile's frames, tile the data (frame, row, column), tile_slice its
\* signal rectangle (self.meta.slice).  Returns the view after the call.
SparseCorrelationUDF_process_tile(task_data, corr, tile, tile_slice) ==
    LET c == task_data.mask_container
        tile_t == Strict(Transpose(Strict(log_scale(Strict(ReshapeTile(tile))))))
        sl == Strict(mask_container_get(c, tile_slice))
    IN  AddInto(corr, Transpose(Strict(Dot(sl, tile_t))))

\* the chunks of length n of a sequence (one level of numpy reshape)
Chunks(s, n) ==
    [i \in 1..(Len(s) \div n) |-> SubSeq(s, (i - 1) * n + 1, i * n)]

\* results.corr.reshape((-1, len(peaks), steps, steps))
ReshapeCorr(corr, n_peaks, steps) ==
    LET flat == Strict(Concat(corr))
        frames == Strict(Chunks(flat, n_peaks * steps * steps))
    IN  [f \in DOMAIN frames |->
            LET per_peak == Chunks(frames[f], steps * steps)
            IN  [p \in DOMAIN per_peak |-> Chunks(per_peak[p], steps)]]

\* a loop that evaluates the first frame only
SparseCorrelationUDF_postprocess_first_frame(params, res) ==
    LET steps == 2 * params.steps.v + 1
        corrmaps == Strict(ReshapeCorr(res.corr, Len(params.peaks), steps))
        peaks == params.peaks
        ev == evaluate_correlations(corrmaps[1], peaks, params.steps.v, PyFalse)
        Put(name, old) == [f \in DOMAIN old |-> IF f = 1 THEN ev[name] ELSE old[f]]
    IN  [results |-> [res EXCEPT !.centers = Put("centers", @),
                                 !.refineds = Put("refineds", @),
                                 !.peak_values = Put("peak_values", @),
                                 !.peak_elevations = Put("peak_elevations", @)],
         evaluated |-> [p \in DOMAIN peaks |-> <<1, p>>]]

\* SparseCorrelationUDF.postprocess: the four output arrays after the call,
\* and the (frame, peak) slots in the order they were evaluated
SparseCorrelationUDF_postprocess(params, res) ==
    LET steps == 2 * params.steps.v + 1
        corrmaps == Strict(ReshapeCorr(res.corr, Len(params.peaks), steps))
        peaks == params.peaks
        ev == Strict([f \in DOMAIN corrmaps |->
                  evaluate_correlations(corrmaps[f], peaks, params.steps.v, PyFalse)])
        Put(name, old) == [f \in DOMAIN old |->
                              IF f \in DOMAIN corrmaps THEN ev[f][name] ELSE old[f]]
    IN  [results |-> [res EXCEPT !.centers = Put("centers", @),
                                 !.refineds = Put("refineds", @),
                                 !.peak_values = Put("peak_values", @),
                                 !.peak_elevations = Put("peak_elevations", @)],
         evaluated |-> Concat([f \in DOMAIN corrmaps |->
                                  [p \in DOMAIN peaks |-> <<f, p>>]])]


\* ---------------------------------------------------------------- state
\* Up to three UDF runs are modelled side by side (claims that compare two
\* runs need them); every variable but the dataset is indexed by the run.
VARIABLES
    dataset,    \* the frames: dataset[f][<<y, x>>]
    call,       \* call[r]: the caller's arguments of run r's entry point
    pc,         \* pc[r]: "new", "constructed", "allocated", "ready", "done", "failed"
    error,      \* error[r]: "none", or the exception that ended the run
    params,     \* params[r]: self.params
    buffers,    \* buffers[r]: the declared result buffers
    task_data,  \* task_data[r]: self.task_data, scratch buffers included
    meta,       \* meta[r]: self.meta.array_backend of the partition
    results,    \* results[r][name][f]: the result buffers
    covered,    \* covered[r][f]: the pixels of frame f delivered in tiles
    processed,  \* processed[r]: the frames process_frame has run for
    engine,     \* engine[r]: the arguments of the last call of the engine
    evals,      \* evals[r]: the (frame, peak) slots evaluated, in order
    ntiles,     \* ntiles[r]: the number of process_tile calls
    heap,       \* heap[id]: the scratch arrays the workers' get_task_data allocated
    bufid,      \* bufid[r]: the scratch array of worker r's task data (0: none)
    busy        \* busy[r]: the frame worker r's engine call is working on (0: none)

vars == <<dataset, call, pc, error, params, buffers, task_data, meta, results,
          covered, processed, engine, evals, ntiles, heap, bufid, busy>>

Runs == 1..3

NoCall ==
    [frame |-> 0, peaks |-> <<>>, upsample |-> Absent, refine |-> Absent,
     crop_function |-> ""]

\* ------------------------------------------------------------- the inputs
\* fixed-point coordinates a caller may give: whole pixels, ties of
\* np.round (when Denom is even), negative and positive fractions
FracCoords ==
    {1 - 2 * Denom, -1, 0, Denom \div 2, Denom, Denom + Denom \div 2, 2 * Denom - 1}

FracPeakLists ==
    {<< <<a, b>> >> : a \in FracCoords, b \in {0, 2 * Denom - 1}}
    \cup {<< <<0, 0>>, <<Denom, 2 * Denom>> >>}

\* peak lists in whole pixels, in and around the frame
IntPeakLists ==
    {<< <<0, 0>> >>, << <<SigH - 1, SigW - 1>> >>, << <<1, 1>>, <<0, SigW>> >>,
     << <<0, 1>>, <<1, 0>> >>}

ShiftVecs ==
    {<<0, 0>>, <<Denom, -Denom>>, <<Denom \div 2, Denom + Denom \div 2>>,
     <<-1, 2 * Denom - 1>>}

AuxShifts ==
    {[f \in FrameIds |-> <<f * (Denom - 1), -f>>],
     [f \in FrameIds |-> <<Denom * (f - 1), 0>>]}

ZeroShifts ==
    {ZsAbsent, ZsNone} \cup {ZsVec(v) : v \in ShiftVecs}
    \cup {ZsAux(s) : s \in AuxShifts}

Upsamples == {Absent, PyFalse, PyTrue, PyInt(2), PyInt(3)}

MatchPatterns == {[crop_size |-> c] : c \in 1..MaxCrop}

\* a frame with one bump: MaxPix at q, 1 right of it and below it
BumpFrame(q) ==
    [p \in Pixels |->
        IF p = q THEN MaxPix
        ELSE IF p = <<q[1], q[2] + 1>> \/ p = <<q[1] + 1, q[2]>> THEN 1
        ELSE 0]

\* a dataset whose bump moves by `drift` from frame to frame
BumpDataset(q, drift) ==
    [f \in FrameIds |-> BumpFrame(VecAdd(q, VecScale(f - 1, drift)))]

Datasets ==
    {BumpDataset(<<0, 0>>, <<0, 1>>), BumpDataset(<<0, 1>>, <<1, 0>>),
     BumpDataset(<<SigH - 1, SigW - 2>>, <<0, 1>>)}

\* the calls of the five entry points
CallsOf(entries, peaklists, zeroshifts, upsamples, stepss) ==
    {[entry |-> e, peaks |-> pl, zero_shift |-> zs, upsample |-> up,
      steps |-> st, match_pattern |-> mp] :
        e \in entries, pl \in peaklists, zs \in zeroshifts, up \in upsamples,
        st \in stepss, mp \in MatchPatterns}

\* ----------------------------------------------------------- the actions
InitRun(d, c) ==
    /\ dataset = d
    /\ call = c
    /\ pc = [r \in Runs |-> "new"]
    /\ error = [r \in Runs |-> "none"]
    /\ params = [r \in Runs |-> NoKwargs]
    /\ buffers = [r \in Runs |-> <<>>]
    /\ task_data = [r \in Runs |-> NoTaskData]
    /\ meta = [r \in Runs |-> ""]
    /\ results = [r \in Runs |-> <<>>]
    /\ covered = [r \in Runs |-> [f \in FrameIds |-> {}]]
    /\ processed = [r \in Runs |-> {}]
    /\ engine = [r \in Runs |-> NoCall]
    /\ evals = [r \in Runs |-> <<>>]
    /\ ntiles = [r \in Runs |-> 0]
    /\ heap = <<>>
    /\ bufid = [r \in Runs |-> 0]
    /\ busy = [r \in Runs |-> 0]

cls(r) == ClassOf(call[r].entry)

\* the entry point of run r is called: the constructor runs
DoConstruct(r) ==
    /\ pc[r] = "new"
    /\ LET c == Construct(call[r])
       IN  IF c.error # "none"
           THEN /\ pc' = [pc EXCEPT ![r] = "failed"]
                /\ error' = [error EXCEPT ![r] = c.error]
                /\ UNCHANGED params
           ELSE /\ pc' = [pc EXCEPT ![r] = "constructed"]
                /\ params' = [params EXCEPT ![r] = c.params]
                /\ UNCHANGED error
    /\ UNCHANGED <<dataset, call, buffers, task_data, meta, results, covered,
                   processed, engine, evals, ntiles, heap, bufid, busy>>

\* the framework asks for the result buffers and allocates them, zeroed
DoGetResultBuffers(r) ==
    /\ pc[r] = "constructed"
    /\ LET b == get_result_buffers(cls(r), params[r])
       IN  /\ buffers' = [buffers EXCEPT ![r] = b]
           /\ results' = [results EXCEPT ![r] = Allocate(b)]
    /\ pc' = [pc EXCEPT ![r] = "allocated"]
    /\ UNCHANGED <<dataset, call, error, params, task_data, meta, covered,
                   processed, engine, evals, ntiles, heap, bufid, busy>>

\* the framework sets up the partition on a backend of `tags`
DoGetTaskData(r, tags) ==
    /\ pc[r] = "allocated"
    /\ \E tag \in tags :
        LET t == get_task_data(cls(r), params[r], tag)
        IN  /\ meta' = [meta EXCEPT ![r] = tag]
            /\ IF t.error # "none"
               THEN /\ pc' = [pc EXCEPT ![r] = "failed"]
                    /\ error' = [error EXCEPT ![r] = t.error]
                    /\ UNCHANGED task_data
               ELSE /\ pc' = [pc EXCEPT ![r] = "ready"]
                    /\ task_data' = [task_data EXCEPT ![r] = t.task_data]
                    /\ UNCHANGED error
    /\ UNCHANGED <<dataset, call, params, buffers, results, covered, processed,
                   engine, evals, ntiles, heap, bufid, busy>>

\* row f of the four output buffers replaced by the rows `out`
PutRows(res, f, out) ==
    [res EXCEPT !.centers[f] = out.centers,
                !.refineds[f] = out.refineds,
                !.peak_values[f] = out.peak_values,
                !.peak_elevations[f] = out.peak_elevations]

\* process_frame of the crop-based or the full-frame strategy for one frame
\* that was not processed yet
DoProcessFrame(r) ==
    /\ pc[r] = "ready"
    /\ cls(r) \in {"FastCorrelationUDF", "FullFrameCorrelationUDF"}
    /\ \E f \in FrameIds \ processed[r] :
        LET out == IF cls(r) = "FastCorrelationUDF"
                   THEN FastCorrelationUDF_process_frame(
                            params[r], task_data[r], dataset[f], f)
                   ELSE FullFrameCorrelationUDF_process_frame(
                            params[r], task_data[r], dataset[f], f)
        IN  /\ results' = [results EXCEPT ![r] = PutRows(@, f, out.out)]
            /\ task_data' = [task_data EXCEPT ![r] = out.task_data]
            /\ engine' = [engine EXCEPT ![r] = out.call]
            /\ processed' = [processed EXCEPT ![r] = @ \cup {f}]
            /\ evals' = [evals EXCEPT ![r] =
                            @ \o [p \in DOMAIN params[r].peaks |-> <<f, p>>]]
    /\ UNCHANGED <<dataset, call, pc, error, params, buffers, meta, covered,
                   ntiles, heap, bufid, busy>>


\* the signal rectangles of the tiles the framework delivers: bands of rows
\* of full width, and bands of columns of full height
TileSlices ==
    {[origin |-> <<b[1], 0>>, shape |-> <<b[2], SigW>>] :
        b \in {b \in Rows \X (1..SigH) : b[1] + b[2] <= SigH}}
    \cup {[origin |-> <<0, b[1]>>, shape |-> <<SigH, b[2]>>] :
        b \in {b \in Cols \X (1..SigW) : b[1] + b[2] <= SigW}}

SlicePixels(sl) ==
    {q \in Pixels : /\ q[1] >= sl.origin[1] /\ q[1] < sl.origin[1] + sl.shape[1]
                    /\ q[2] >= sl.origin[2] /\ q[2] < sl.origin[2] + sl.shape[2]}

\* the data of the tile with frames f0..f1 and signal rectangle sl
TileData(f0, f1, sl) ==
    [i \in 1..(f1 - f0 + 1) |->
        [row \in 1..sl.shape[1] |->
            [col \in 1..sl.shape[2] |->
                dataset[f0 + i - 1][<<sl.origin[1] + row - 1, sl.origin[2] + col - 1>>]]]]

\* The framework reads the frames in order, in groups: the tiles of a group
\* of frames f0..f1 are disjoint, arrive in any order, and cover the frames
\* before the next group starts.
TileFrames(r) ==
    LET partial == {f \in FrameIds : covered[r][f] # {} /\ covered[r][f] # Pixels}
        fresh == {f \in FrameIds : covered[r][f] = {}}
    IN  IF partial # {}
        THEN {<<CHOOSE f \in partial : \A g \in partial : f <= g,
                CHOOSE f \in partial : \A g \in partial : f >= g>>}
        ELSE IF fresh = {} THEN {}
        ELSE LET f0 == CHOOSE f \in fresh : \A g \in fresh : f <= g
             IN  {<<f0, f1>> : f1 \in f0..NumFrames}

\* process_tile of the sparse strategy for one tile
DoProcessTile(r) ==
    /\ pc[r] = "ready"
    /\ cls(r) = "SparseCorrelationUDF"
    /\ \E fr \in TileFrames(r) : \E sl \in TileSlices :
        LET f0 == fr[1]
            f1 == fr[2]
            view == [i \in 1..(f1 - f0 + 1) |-> results[r].corr[f0 + i - 1]]
            new == SparseCorrelationUDF_process_tile(
                       task_data[r], view, TileData(f0, f1, sl), sl)
        IN  /\ SlicePixels(sl) \cap covered[r][f0] = {}
            /\ results' = [results EXCEPT ![r].corr =
                              [f \in FrameIds |->
                                  IF f >= f0 /\ f <= f1 THEN new[f - f0 + 1] ELSE @[f]]]
            /\ covered' = [covered EXCEPT ![r] =
                              [f \in FrameIds |->
                                  IF f >= f0 /\ f <= f1
                                  THEN @[f] \cup SlicePixels(sl) ELSE @[f]]]
            /\ ntiles' = [ntiles EXCEPT ![r] = @ + 1]
    /\ UNCHANGED <<dataset, call, pc, error, params, buffers, task_data, meta,
                   processed, engine, evals, heap, bufid, busy>>

\* every frame of the partition was delivered to the UDF
AllDelivered(r) ==
    IF cls(r) = "SparseCorrelationUDF"
    THEN \A f \in FrameIds : covered[r][f] = Pixels
    ELSE processed[r] = FrameIds

\* postprocess, once the partition's frames or tiles were all processed:
\* CorrelationUDF.postprocess does nothing, the sparse strategy evaluates
DoPostprocess(r) ==
    /\ pc[r] = "ready"
    /\ AllDelivered(r)
    /\ IF cls(r) = "SparseCorrelationUDF"
       THEN LET post == SparseCorrelationUDF_postprocess(params[r], results[r])
            IN  /\ results' = [results EXCEPT ![r] = post.results]
                /\ evals' = [evals EXCEPT ![r] = @ \o post.evaluated]
       ELSE UNCHANGED <<results, evals>>
    /\ pc' = [pc EXCEPT ![r] = "done"]
    /\ UNCHANGED <<dataset, call, error, params, buffers, task_data, meta,
                   covered, processed, engine, ntiles, heap, bufid, busy>>

\* ------------------------------------------------------------ workers
\* Workers run the same UDF side by side, each on the frames it takes; each
\* has its own task data from its own get_task_data call.
Workers == 1..2

\* an earlier allocation handed out again
AllocateScratch_cached(h) == 1

\* the array a get_task_data call allocates (ltbc.allocate_crop_bufs, or
\* xp.array(ltbc.zeros(...))): a new object, no other task data holds it
AllocateScratch(h) == Len(h) + 1

\* the scratch array of the task data t: crop_bufs of the crop-based
\* strategy, frame_buf of the full-frame one
ScratchData(c, t) == IF c = "FastCorrelationUDF" THEN t.crop_bufs ELSE t.frame_buf

\* get_task_data of worker w, its scratch array placed on the heap
WorkerGetTaskData(w, tags) ==
    /\ pc[w] = "allocated"
    /\ \E tag \in tags :
        LET t == get_task_data(cls(w), params[w], tag)
            id == AllocateScratch(heap)
            cell == [data |-> ScratchData(cls(w), t.task_data), writer |-> 0, frame |-> 0]
        IN  /\ meta' = [meta EXCEPT ![w] = tag]
            /\ IF t.error # "none"
               THEN /\ pc' = [pc EXCEPT ![w] = "failed"]
                    /\ error' = [error EXCEPT ![w] = t.error]
                    /\ UNCHANGED <<task_data, heap, bufid>>
               ELSE /\ pc' = [pc EXCEPT ![w] = "ready"]
                    /\ task_data' = [task_data EXCEPT ![w] = t.task_data]
                    /\ heap' = IF id \in DOMAIN heap THEN [heap EXCEPT ![id] = cell]
                               ELSE Append(heap, cell)
                    /\ bufid' = [bufid EXCEPT ![w] = id]
                    /\ UNCHANGED error
    /\ UNCHANGED <<dataset, call, params, buffers, results, covered, processed,
                   engine, evals, ntiles, busy>>

\* the frames some worker has taken
Taken == UNION {processed[v] \cup ({busy[v]} \ {0}) : v \in Workers}

\* the positions worker w hands to the engine for frame f
WorkerPeaks(w, f) == ShiftedPeaks(params[w].peaks, ParamsView(params[w].zero_shift, f))

\* process_frame of worker w, first half: the engine fills the worker's
\* scratch array from a frame no worker has taken
WorkerBeginFrame(w) ==
    /\ pc[w] = "ready"
    /\ busy[w] = 0
    /\ cls(w) \in {"FastCorrelationUDF", "FullFrameCorrelationUDF"}
    /\ \E f \in FrameIds \ Taken :
        LET data == IF cls(w) = "FastCorrelationUDF"
                    THEN fast_fill(dataset[f], WorkerPeaks(w, f),
                                   get_crop_size(params[w].match_pattern))
                    ELSE full_fill(dataset[f])
        IN  /\ heap' = [heap EXCEPT ![bufid[w]] =
                            [data |-> data, writer |-> w, frame |-> f]]
            /\ busy' = [busy EXCEPT ![w] = f]
    /\ UNCHANGED <<dataset, call, pc, error, params, buffers, task_data, meta,
                   results, covered, processed, engine, evals, ntiles, bufid>>

\* process_frame of worker w, second half: the engine correlates what is in
\* the worker's scratch array and writes the frame's four output rows
WorkerEndFrame(w) ==
    /\ pc[w] = "ready"
    /\ busy[w] # 0
    /\ LET f == busy[w]
           peaks == WorkerPeaks(w, f)
           upsample == params_get_upsample(params[w])
           crop_size == get_crop_size(params[w].match_pattern)
           data == heap[bufid[w]].data
           out == IF cls(w) = "FastCorrelationUDF"
                  THEN fast_correlate(data, task_data[w].template, crop_size,
                                      peaks, upsample)
                  ELSE full_correlate(data, task_data[w].template, crop_size,
                                      peaks, upsample)
       IN  /\ results' = [results EXCEPT ![w] = PutRows(@, f, out)]
           /\ engine' = [engine EXCEPT ![w] =
                             [frame |-> f, peaks |-> peaks, upsample |-> upsample,
                              refine |-> out.upsample,
                              crop_function |-> task_data[w].crop_function]]
           /\ processed' = [processed EXCEPT ![w] = @ \cup {f}]
           /\ evals' = [evals EXCEPT ![w] =
                           @ \o [p \in DOMAIN params[w].peaks |-> <<f, p>>]]
           /\ busy' = [busy EXCEPT ![w] = 0]
    /\ UNCHANGED <<dataset, call, pc, error, params, buffers, task_data, meta,
                   covered, ntiles, heap, bufid>>

\* CorrelationUDF.postprocess of worker w (pass), once every frame of the
\* dataset was processed by some worker
WorkerPostprocess(w) ==
    /\ pc[w] = "ready"
    /\ busy[w] = 0
    /\ UNION {processed[v] : v \in Workers} = FrameIds
    /\ pc' = [pc EXCEPT ![w] = "done"]
    /\ UNCHANGED <<dataset, call, error, params, buffers, task_data, meta, results,
                   covered, processed, engine, evals, ntiles, heap, bufid, busy>>

\* ------------------------------------------------------ specifications
\* Spec: one run of any entry point with any arguments, on any backend tag.
BaseDataset == BumpDataset(<<0, 1>>, <<1, 0>>)

FrameEntries == {"FastCorrelationUDF", "FullFrameCorrelationUDF", "run_fastcorrelation"}

TwoPeaks == << <<0, 0>>, <<Denom, 2 * Denom>> >>

OneFractionalPeak == << <<2 * Denom - 1, 0>> >>

\* every peak list without a zero shift, every zero shift and every upsample
\* with two of the peak lists
SpecCalls ==
    CallsOf(FrameEntries, FracPeakLists, {ZsAbsent, ZsNone}, {Absent}, {0})
    \cup CallsOf(FrameEntries, {TwoPeaks, OneFractionalPeak}, ZeroShifts,
                 {Absent, PyTrue}, {0})
    \cup CallsOf(FrameEntries, {TwoPeaks}, {ZsNone}, Upsamples, {0})
    \cup CallsOf({"SparseCorrelationUDF"}, {TwoPeaks, OneFractionalPeak}, ZeroShifts,
                 {Absent}, 0..MaxSteps)
    \cup CallsOf({"run_blobfinder"}, {AsFixed(pl) : pl \in IntPeakLists},
                 {ZsAbsent}, Upsamples, {0})

Init ==
    \E c \in SpecCalls : InitRun(BaseDataset, [r \in Runs |-> c])

Next ==
    \/ DoConstruct(1)
    \/ DoGetResultBuffers(1)
    \/ DoGetTaskData(1, BackendTags)
    \/ DoProcessFrame(1)
    \/ DoProcessTile(1)
    \/ DoPostprocess(1)

Spec == Init /\ [][Next]_vars

\* SpecSparse: one run of the sparse strategy over any of the datasets, its
\* tiles in any order and partition.
SparseCalls ==
    CallsOf({"SparseCorrelationUDF"}, {AsFixed(pl) : pl \in IntPeakLists},
            {ZsAbsent}, {Absent}, 0..MaxSteps)

InitSparse ==
    \E d \in Datasets : \E c \in SparseCalls : InitRun(d, [r \in Runs |-> c])

NextSparse ==
    \/ DoConstruct(1)
    \/ DoGetResultBuffers(1)
    \/ DoGetTaskData(1, {BACKEND_NUMPY})
    \/ DoProcessTile(1)
    \/ DoPostprocess(1)

SpecSparse == InitSparse /\ [][NextSparse]_vars

\* run r starts when the runs before it have ended
Turn(r) == \A q \in Runs : q < r => pc[q] \in {"done", "failed"}

\* SpecTiles: two runs of the sparse strategy, one after the other, with the
\* same arguments over the same dataset; each gets its tiles in an order and
\* a partition of its own.
TileCalls ==
    CallsOf({"SparseCorrelationUDF"},
            {AsFixed(<< <<0, 1>>, <<1, 0>> >>)}, {ZsNone}, {Absent}, {MaxSteps})

InitTiles ==
    \E d \in {BaseDataset, BumpDataset(<<0, 0>>, <<0, 1>>)} :
        \E c \in TileCalls : InitRun(d, [r \in Runs |-> c])

NextTiles ==
    \E r \in 1..2 :
        /\ Turn(r)
        /\ \/ DoConstruct(r)
           \/ DoGetResultBuffers(r)
           \/ DoGetTaskData(r, {BACKEND_NUMPY})
           \/ DoProcessTile(r)
           \/ DoPostprocess(r)

SpecTiles == InitTiles /\ [][NextTiles]_vars

\* SpecShift: three runs of the crop-based or the full-frame strategy, one
\* after the other, over the same dataset: run 1 with the peaks P + v and
\* zero_shift = v, run 2 with P - v and zero_shift = 0, run 3 with P + 2v and
\* zero_shift = 0, for whole-pixel vectors v.
WholeShifts == {<<0, 0>>, <<Denom, 0>>, <<0, -Denom>>, <<-Denom, Denom>>}

ShiftedList(pl, k, v) == [p \in DOMAIN pl |-> VecAdd(pl[p], VecScale(k, v))]

ShiftCall(e, pl, k, v, zs) ==
    [entry |-> e, peaks |-> ShiftedList(AsFixed(pl), k, v), zero_shift |-> ZsVec(zs),
     upsample |-> Absent, steps |-> 0, match_pattern |-> [crop_size |-> MaxCrop]]

InitShift ==
    \E d \in Datasets : \E e \in {"FastCorrelationUDF", "FullFrameCorrelationUDF"} :
        \E pl \in IntPeakLists : \E v \in WholeShifts :
            InitRun(d, <<ShiftCall(e, pl, 1, v, v),
                         ShiftCall(e, pl, -1, v, <<0, 0>>),
                         ShiftCall(e, pl, 2, v, <<0, 0>>)>>)

NextShift ==
    \E r \in Runs :
        /\ Turn(r)
        /\ \/ DoConstruct(r)
           \/ DoGetResultBuffers(r)
           \/ DoGetTaskData(r, {BACKEND_NUMPY})
           \/ DoProcessFrame(r)
           \/ DoPostprocess(r)

SpecShift == InitShift /\ [][NextShift]_vars

\* SpecWorkers: two workers run the crop-based or the full-frame strategy
\* side by side over one dataset, their steps interleaved in any way.
WorkerCalls ==
    CallsOf({"FastCorrelationUDF", "FullFrameCorrelationUDF"},
            {AsFixed(<< <<0, 1>>, <<1, 0>> >>), AsFixed(<< <<SigH - 1, SigW - 1>> >>)},
            {ZsNone} \cup {ZsAux(s) : s \in AuxShifts}, {Absent}, {0})

InitWorkers ==
    \E d \in Datasets : \E c \in WorkerCalls : InitRun(d, [r \in Runs |-> c])

NextWorkers ==
    \E w \in Workers :
        \/ DoConstruct(w)
        \/ DoGetResultBuffers(w)
        \/ WorkerGetTaskData(w, {BACKEND_NUMPY})
        \/ WorkerBeginFrame(w)
        \/ WorkerEndFrame(w)
        \/ WorkerPostprocess(w)

SpecWorkers == InitWorkers /\ [][NextWorkers]_vars


\* ================================================================ claims
FourArrays == {"centers", "refineds", "peak_values", "peak_elevations"}

FourTags == {BACKEND_NUMPY, BACKEND_CUPY, BACKEND_SPARSE_COO, BACKEND_SPARSE_GCXS}

\* nothing was processed by run r and nothing written to its buffers
Untouched(r) ==
    /\ results[r] = Allocate(buffers[r])
    /\ processed[r] = {}
    /\ \A f \in FrameIds : covered[r][f] = {}
    /\ evals[r] = <<>>
    /\ ntiles[r] = 0
    /\ engine[r] = NoCall

\* C2: constructing SparseCorrelationUDF with a zero_shift other than None
\* fails in the constructor with the ValueError of line 303: no buffer is
\* declared or allocated, no tile accumulated, nothing evaluated; with
\* zero_shift absent or None that error is never raised.
C2_SparseZeroShiftRejected ==
    (call[1].entry = "SparseCorrelationUDF" /\ pc[1] # "new") =>
        IF call[1].zero_shift.k \in {"absent", "None"}
        THEN error[1] # ErrZeroShift
        ELSE /\ pc[1] = "failed"
             /\ error[1] = ErrZeroShift
             /\ DOMAIN buffers[1] = {}
             /\ DOMAIN results[1] = {}
             /\ Untouched(1)

C2_Witness ==
    /\ call[1].entry = "SparseCorrelationUDF"
    /\ call[1].zero_shift.k = "aux"
    /\ pc[1] = "failed"
    /\ error[1] = ErrZeroShift

\* d is a nearest integer of the fixed-point number n
IsNearest(d, n) == 2 * Abs(d * Denom - n) <= Denom

\* d is np.round of the fixed-point number n: nearest, and even on a tie
IsNpRound(d, n) ==
    /\ IsNearest(d, n)
    /\ (2 * Abs(d * Denom - n) = Denom => d % 2 = 0)

\* C3: for the three constructors and run_fastcorrelation, the integer peak
\* coordinates of the UDF are the caller's coordinates rounded to the
\* nearest integer pixel.
C3_PeaksRoundedToNearest ==
    (call[1].entry \in Classes \cup {"run_fastcorrelation"}
        /\ pc[1] \notin {"new", "failed"}) =>
        /\ Len(params[1].peaks) = Len(call[1].peaks)
        /\ \A p \in DOMAIN call[1].peaks : \A i \in 1..2 :
               IsNearest(params[1].peaks[p][i], call[1].peaks[p][i])

\* C5 as claimed: the sparse strategy's result set is exactly the four
\* arrays.
C5_SparseFourOnly ==
    (cls(1) = "SparseCorrelationUDF" /\ pc[1] \in {"allocated", "ready", "done"}) =>
        /\ ResultNames(buffers[1]) = FourArrays
        /\ DOMAIN results[1] = FourArrays

\* C5 as amended: the sparse strategy's result set is the four arrays and
\* its accumulator corr, an ordinary result buffer of length
\* N * (2 * steps + 1)^2 per frame; the other two strategies have exactly the
\* four.
C5_SparseFourAndCorr ==
    (pc[1] \in {"allocated", "ready", "done"}) =>
        /\ ResultNames(buffers[1]) =
              IF cls(1) = "SparseCorrelationUDF" THEN FourArrays \cup {"corr"}
              ELSE FourArrays
        /\ DOMAIN results[1] = ResultNames(buffers[1])
        /\ cls(1) = "SparseCorrelationUDF" =>
              LET S == 2 * params[1].steps.v + 1
              IN  /\ buffers[1].corr.kind = "nav"
                  /\ buffers[1].corr.dtype = "float32"
                  /\ buffers[1].corr.extra_shape = <<Len(params[1].peaks) * S * S>>
                  /\ \A f \in FrameIds :
                         Len(results[1].corr[f]) = Len(params[1].peaks) * S * S

C5_Witness ==
    /\ cls(1) = "SparseCorrelationUDF"
    /\ pc[1] = "done"
    /\ "corr" \in ResultNames(buffers[1])
    /\ \E f \in FrameIds : \E k \in DOMAIN results[1].corr[f] : results[1].corr[f][k] > 0

\* what C6 says of the crop function of the crop-based and full-frame
\* strategies
CropFunctionAsClaimed ==
    (cls(1) \in {"FastCorrelationUDF", "FullFrameCorrelationUDF"}
        /\ pc[1] \in {"ready", "done"}) =>
        task_data[1].crop_function =
            IF meta[1] = BACKEND_NUMPY THEN "crop_disks_from_frame"
            ELSE "crop_disks_from_frame_slicing"

\* get_task_data of run 1 raised a configuration error and nothing ran
SetupRefused ==
    /\ pc[1] = "failed"
    /\ error[1] \in {ErrDevice, ErrBackend}
    /\ Untouched(1)

\* C6 as claimed: get_task_data accepts exactly the tags get_backends
\* declares and raises for any other tag, before anything is processed.
C6_AcceptsExactlyDeclared ==
    (meta[1] # "") =>
        /\ (meta[1] \in get_backends(cls(1)) => pc[1] \in {"ready", "done"})
        /\ (meta[1] \notin get_backends(cls(1)) => SetupRefused)
        /\ CropFunctionAsClaimed

\* C6 as amended: get_task_data accepts every declared tag and raises for
\* every tag outside numpy, cupy, sparse.COO and sparse.GCXS, before anything
\* is processed and with the result arrays unwritten; the full-frame strategy
\* accepts the two sparse tags although it does not declare them.  The crop
\* function is as claimed.
C6_AcceptsFourTags ==
    (meta[1] # "") =>
        /\ get_backends(cls(1)) \subseteq FourTags
        /\ (meta[1] \in FourTags => pc[1] \in {"ready", "done"})
        /\ (meta[1] \notin FourTags => SetupRefused)
        /\ CropFunctionAsClaimed

C6_Witness ==
    /\ cls(1) = "FullFrameCorrelationUDF"
    /\ meta[1] = "cuda"
    /\ pc[1] = "failed"
    /\ error[1] = ErrBackend

\* the zero shift of frame f as the caller gave it, a fixed-point vector
CallerShift(c, f) ==
    CASE c.zero_shift.k \in {"absent", "None"} -> <<0, 0>>
      [] c.zero_shift.k = "vec" -> c.zero_shift.v[1]
      [] c.zero_shift.k = "aux" -> c.zero_shift.v[f]

\* C7 as claimed: the positions handed to the engine for image f are the
\* stored peaks plus the zero shift of image f.
C7_PositionsArePeakPlusShift ==
    (engine[1].frame # 0) =>
        /\ DOMAIN engine[1].peaks = DOMAIN params[1].peaks
        /\ \A p \in DOMAIN params[1].peaks : \A i \in 1..2 :
               Denom * engine[1].peaks[p][i] =
                   Denom * params[1].peaks[p][i]
                   + CallerShift(call[1], engine[1].frame)[i]

\* C7 as amended: the positions handed to the engine for image f are the
\* stored peaks plus the zero shift of image f rounded to whole pixels
\* (np.round: nearest, ties to even), the same offset for every peak; the
\* stored peak list is the one the constructor stored.
C7_PositionsArePeakPlusRoundedShift ==
    (engine[1].frame # 0) =>
        /\ DOMAIN engine[1].peaks = DOMAIN params[1].peaks
        /\ \A p \in DOMAIN params[1].peaks : \A i \in 1..2 :
               IsNpRound(engine[1].peaks[p][i] - params[1].peaks[p][i],
                         CallerShift(call[1], engine[1].frame)[i])
        /\ \A p, q \in DOMAIN params[1].peaks :
               VecSub(engine[1].peaks[p], params[1].peaks[p])
                   = VecSub(engine[1].peaks[q], params[1].peaks[q])
        /\ params[1].peaks = Construct(call[1]).params.peaks

C7_Witness ==
    /\ engine[1].frame = NumFrames
    /\ call[1].zero_shift.k = "aux"
    /\ Len(params[1].peaks) = 2
    /\ engine[1].peaks[1] # params[1].peaks[1]
    /\ CallerShift(call[1], NumFrames)[1] % Denom # 0

\* C9: the upsample the refinement step works with, for the caller's
\* upsample: True becomes an integer factor >= 2, an integer arrives
\* unchanged, an omitted upsample and False arrive as False.
C9_UpsampleReachesRefinement ==
    (engine[1].frame # 0) =>
        LET given == call[1].upsample
            got == engine[1].refine
        IN  /\ given = PyTrue => (got.k = "int" /\ got.v >= 2)
            /\ given.k = "int" => got = given
            /\ given.k = "absent" => got = PyFalse
            /\ given = PyFalse => got = PyFalse

C9_Witness ==
    /\ call[1].entry = "run_blobfinder"
    /\ call[1].upsample = PyTrue
    /\ engine[1].frame # 0
    /\ engine[1].upsample = PyInt(BlobfinderDefaultUpsample)


\* the accumulated response of run r is not all zero
SomeResponse(r) ==
    \E f \in FrameIds : \E k \in DOMAIN results[r].corr[f] : results[r].corr[f][k] # 0

\* C1: two runs of the sparse strategy with the same arguments over the same
\* images, each from a zeroed accumulator and each with its own tile order
\* and tile partition, leave the same accumulated response in corr once
\* their tiles cover every image.
C1_SparseAccumulationIndependentOfTiling ==
    (/\ cls(1) = "SparseCorrelationUDF" /\ cls(2) = "SparseCorrelationUDF"
     /\ call[1] = call[2]
     /\ pc[1] \in {"ready", "done"} /\ pc[2] \in {"ready", "done"}
     /\ AllDelivered(1) /\ AllDelivered(2)) =>
        results[1].corr = results[2].corr

C1_Witness ==
    /\ pc[1] = "done" /\ pc[2] = "ready"
    /\ AllDelivered(2)
    /\ ntiles[1] > ntiles[2] /\ ntiles[2] > 1
    /\ SomeResponse(1) /\ SomeResponse(2)

\* the four output arrays of run r
FourOf(r) == [n \in FourArrays |-> results[r][n]]

\* runs q and r both finished with results to compare
BothDone(q, r) ==
    /\ pc[q] = "done" /\ pc[r] = "done"
    /\ cls(q) \in {"FastCorrelationUDF", "FullFrameCorrelationUDF"}
    /\ cls(r) = cls(q)

\* C4 as claimed: the run with the peaks P + v and zero_shift = v gives the
\* same results as the run with the peaks P - v and zero_shift = 0.
C4_ShiftedEqualsMinusShifted ==
    BothDone(1, 2) => FourOf(1) = FourOf(2)

\* C4 as amended: the run with the peaks P + v and zero_shift = v gives the
\* same results as the run with the peaks P + 2v and zero_shift = 0: the
\* zero shift is added to the peaks.
C4_ShiftedEqualsTwiceShifted ==
    BothDone(1, 3) => FourOf(1) = FourOf(3)

C4_Witness ==
    /\ BothDone(1, 3)
    /\ call[1].zero_shift.v[1] # <<0, 0>>
    /\ call[1].peaks # call[3].peaks
    /\ \E f \in FrameIds : \E p \in DOMAIN results[1].peak_values[f] :
           results[1].peak_values[f][p] > 0
    /\ FourOf(1) # FourOf(2)

\* the (2 * steps + 1)^2 patch of frame f and peak p (from 1), read from the
\* accumulator by index
PatchOf(r, f, p) ==
    LET S == 2 * params[r].steps.v + 1
    IN  [i \in 1..S |-> [j \in 1..S |->
            results[r].corr[f][(p - 1) * S * S + (i - 1) * S + j]]]

\* C8: in the sparse strategy the four result arrays stay as allocated until
\* postprocess runs, whatever tiles were accumulated; postprocess evaluates
\* every (image, peak) slot exactly once and writes slot [image][peak] from
\* the patch of that image and peak.
C8_SparseResultsWrittenByPostprocess ==
    (cls(1) = "SparseCorrelationUDF" /\ pc[1] \in {"allocated", "ready", "done"}) =>
        LET N == Len(params[1].peaks)
        IN  IF pc[1] # "done"
            THEN /\ \A n \in FourArrays : results[1][n] = Allocate(buffers[1])[n]
                 /\ evals[1] = <<>>
            ELSE /\ AllDelivered(1)
                 /\ Len(evals[1]) = NumFrames * N
                 /\ \A f \in FrameIds : \A p \in 1..N :
                     /\ \E k \in DOMAIN evals[1] : evals[1][k] = <<f, p>>
                     /\ LET e == evaluate_correlation(PatchOf(1, f, p),
                                     params[1].peaks[p], params[1].steps.v, PyFalse)
                        IN  /\ results[1].centers[f][p] = e.center
                            /\ results[1].refineds[f][p] = e.refined
                            /\ results[1].peak_values[f][p] = e.height
                            /\ results[1].peak_elevations[f][p] = e.elevation

C8_Witness ==
    /\ cls(1) = "SparseCorrelationUDF"
    /\ pc[1] = "done"
    /\ ntiles[1] > NumFrames
    /\ Len(params[1].peaks) = 2
    /\ params[1].steps.v = MaxSteps
    /\ results[1].peak_values[NumFrames][2] > 0
    /\ results[1].centers[NumFrames][1] # params[1].peaks[1]

\* the response of frame f to the template centred at pixel c0
ResponseAt(r, f, c0) ==
    LET crop == task_data[r].crop_size
        template == task_data[r].mask_container.template
        scaled == [q \in Pixels |-> LogScaleValue(dataset[f][q])]
        hit == {q \in Pixels : <<q[1] - c0[1] + crop, q[2] - c0[2] + crop>>
                                    \in DOMAIN template}
    IN  SumOver(hit, [q \in hit |->
            template[<<q[1] - c0[1] + crop, q[2] - c0[2] + crop>>] * scaled[q]])

\* C10: for N peaks and steps s the stack has N * (2s+1)^2 masks, mask number
\* p * (2s+1)^2 + i * (2s+1) + j has its top-left corner at
\* peak[p] + (i - s, j - s) - crop_size for a template of side
\* 2 * crop_size + 1, the accumulator has N * (2s+1)^2 entries per image, and
\* once all tiles are accumulated the reshaped accumulator's entry [p][i][j]
\* is the response to the template centred at peak[p] + (i - s, j - s).
C10_MaskStackLayout ==
    (cls(1) = "SparseCorrelationUDF" /\ pc[1] \in {"ready", "done"}) =>
        LET c == task_data[1].mask_container
            crop == task_data[1].crop_size
            peaks == params[1].peaks
            N == Len(peaks)
            s == params[1].steps.v
            S == 2 * s + 1
        IN  /\ Len(c.offsetY) = N * S * S
            /\ Len(c.offsetX) = N * S * S
            /\ c.mask_index = 1..(N * S * S)
            /\ DOMAIN c.template = (0..(2 * crop)) \X (0..(2 * crop))
            /\ \A f \in FrameIds : Len(results[1].corr[f]) = N * S * S
            /\ \A p \in 0..(N - 1) : \A i \in 0..(S - 1) : \A j \in 0..(S - 1) :
                LET k == p * S * S + i * S + j + 1
                IN  /\ c.offsetY[k] = peaks[p + 1][1] + (i - s) - crop
                    /\ c.offsetX[k] = peaks[p + 1][2] + (j - s) - crop
            /\ AllDelivered(1) =>
                LET corrmaps == ReshapeCorr(results[1].corr, N, S)
                IN  \A f \in FrameIds : \A p \in 1..N : \A i \in 1..S : \A j \in 1..S :
                        corrmaps[f][p][i][j] =
                            ResponseAt(1, f, <<peaks[p][1] + (i - 1 - s),
                                              peaks[p][2] + (j - 1 - s)>>)

C10_Witness ==
    /\ cls(1) = "SparseCorrelationUDF"
    /\ pc[1] = "done"
    /\ params[1].steps.v = MaxSteps
    /\ Len(params[1].peaks) = 2
    /\ ntiles[1] > NumFrames
    /\ LET S == 2 * MaxSteps + 1
       IN  \E p \in 1..2 : \E i, j \in 1..S :
               /\ i # j
               /\ PatchOf(1, 1, p)[i][j] # PatchOf(1, 1, p)[j][i]


\* the response of mask k to the pixels `frag` of frame f
FragmentResponse(r, f, k, frag) ==
    LET c == task_data[r].mask_container
    IN  SumOver(frag, [q \in frag |-> MaskPixel(c, k, q) * LogScaleValue(dataset[f][q])])

\* C11: a process_tile call of the sparse strategy adds, to the accumulator
\* of every image in the tile, the mask-stack response of that image's
\* fragment, and leaves the accumulators of the other images, the four
\* output arrays, the mask stack and the peak list as they were.
C11_ProcessTileFrameEffect ==
    [][(ntiles[1]' # ntiles[1]) =>
          /\ ntiles[1]' = ntiles[1] + 1
          /\ task_data' = task_data
          /\ params' = params
          /\ \A n \in FourArrays : results[1][n]' = results[1][n]
          /\ \E f \in FrameIds : covered[1][f]' # covered[1][f]
          /\ \A f \in FrameIds :
               LET frag == covered[1][f]' \ covered[1][f]
               IN  /\ covered[1][f] \subseteq covered[1][f]'
                   /\ DOMAIN results[1].corr[f]' = DOMAIN results[1].corr[f]
                   /\ \A k \in DOMAIN results[1].corr[f] :
                        results[1].corr[f][k]' =
                            results[1].corr[f][k]
                            + (IF frag = {} THEN 0 ELSE FragmentResponse(1, f, k, frag))
    ]_vars

\* a tile of two frames with different responses was accumulated, and
\* another tile before it
C11_Witness ==
    /\ cls(1) = "SparseCorrelationUDF"
    /\ pc[1] = "ready"
    /\ ntiles[1] = 2
    /\ covered[1][1] = covered[1][2]
    /\ covered[1][1] # {} /\ covered[1][1] # Pixels
    /\ results[1].corr[1] # results[1].corr[2]
    /\ SomeResponse(1)


\* the four output rows of frame f when the UDF of worker w processes that
\* frame alone, with task data of its own
Alone(w, f) ==
    LET t == get_task_data(cls(w), params[w], meta[w]).task_data
    IN  IF cls(w) = "FastCorrelationUDF"
        THEN FastCorrelationUDF_process_frame(params[w], t, dataset[f], f).out
        ELSE FullFrameCorrelationUDF_process_frame(params[w], t, dataset[f], f).out

\* C12: every worker's get_task_data allocated a scratch array no other
\* worker holds; a worker in the middle of an engine call finds in its
\* scratch array what it wrote itself for the frame it works on; and the
\* four results of every processed frame are those of processing that frame
\* alone, whatever the interleaving.
C12_WorkersShareNoScratch ==
    \A w \in Workers :
        /\ pc[w] \in {"ready", "done"} =>
              /\ bufid[w] \in DOMAIN heap
              /\ \A v \in Workers \ {w} : bufid[v] # bufid[w]
        /\ busy[w] # 0 =>
              /\ heap[bufid[w]].writer = w
              /\ heap[bufid[w]].frame = busy[w]
        /\ \A v \in Workers \ {w} : processed[v] \cap processed[w] = {}
        /\ \A f \in processed[w] :
              LET alone == Alone(w, f)
              IN  /\ results[w].centers[f] = alone.centers
                  /\ results[w].refineds[f] = alone.refineds
                  /\ results[w].peak_values[f] = alone.peak_values
                  /\ results[w].peak_elevations[f] = alone.peak_elevations

\* worker 1 has finished a frame and worker 2 is in the middle of its engine
\* call, each scratch array written by its own worker, with different data
C12_Witness ==
    /\ busy[2] # 0
    /\ processed[1] # {}
    /\ heap[bufid[1]].writer = 1 /\ heap[bufid[2]].writer = 2
    /\ heap[bufid[1]].data # heap[bufid[2]].data
    /\ \E f \in processed[1] : \E p \in DOMAIN results[1].peak_values[f] :
           results[1].peak_values[f][p] > 0

=============================================================================
